---- MODULE Spec2Model ----
(***************************************************************************)
(* cryptoflare: a Cloudflare worker that hashes and verifies passwords     *)
(* with Argon2id and bcrypt (src/src/lib.rs).                              *)
(*                                                                         *)
(* The worker keeps no state of its own between requests.  The model's     *)
(* state is what surrounds it: the operating system's random source (rng,  *)
(* the number of salts drawn so far), the hash strings the client has kept *)
(* (issued), and the exchange the worker has just answered (last), which   *)
(* stays until the client has taken the answer.                            *)
(*                                                                         *)
(* Text is modelled by its structure.  A password is its sequence of       *)
(* bytes, written as its runs: <<97, 72>> is byte 97 seventy-two times, and *)
(* no two neighbouring runs hold the same byte, so that two passwords are   *)
(* equal exactly when their runs are.  A hash string is the sequence of the fields that '$' separates  *)
(* in it; a field carries its character class, its text or numbers, its    *)
(* length where a parser looks at it, and the digest it encodes.  The      *)
(* key-derivation functions themselves are ideal: a digest is the tuple of *)
(* everything the function reads, so two digests agree exactly when their  *)
(* inputs do.                                                              *)
(***************************************************************************)
EXTENDS Integers, Sequences, FiniteSets, TLC

VARIABLES rng, issued, last

vars == <<rng, issued, last>>

------------------------------------------------------------------------------
(* Bounds of the model.                                                     *)

\* OsRng draws the model follows (each hash call that reaches the core draws one)
MaxSalts == 2
\* hash strings the client keeps (the first it is given)
MaxIssued == 1
\* longest of the short passwords
MaxPwLen == 1
\* how far past bcrypt's 72 bytes the long passwords go
MaxOver == 1

------------------------------------------------------------------------------
(* Constants of the primitives the handlers call.                           *)

\* bcrypt::hash reads at most this many bytes of the NUL-terminated password
BcryptMaxBytes == 72
\* bcrypt::DEFAULT_COST
DEFAULT_COST == 12
\* bcrypt MIN_COST and MAX_COST
MIN_COST == 4
MAX_COST == 31
\* characters of bcrypt's salt-and-digest field
BcryptBodyLen == 53
\* argon2 Params: MIN_M_COST, MIN_T_COST, MIN_P_COST, MAX_P_COST
MIN_M_COST == 8
MIN_T_COST == 1
MIN_P_COST == 1
MAX_P_COST == 16777215
\* argon2 Params::DEFAULT_M_COST, DEFAULT_T_COST, DEFAULT_P_COST
DEFAULT_M_COST == 19456
DEFAULT_T_COST == 2
DEFAULT_P_COST == 1
\* argon2 Version::V0x13 (the default) and Version::V0x10
V0x13 == 19
V0x10 == 16
\* password_hash Salt: characters of a B64 salt, least and most
SaltMinChars == 4
SaltMaxChars == 64
\* password_hash Output: characters of a B64 digest of 10 to 64 bytes
OutputMinChars == 14
OutputMaxChars == 86
\* SaltString::generate: 16 bytes, 22 characters; Argon2 output: 32 bytes, 43
SaltChars == 22
OutputChars == 43
\* argon2 MIN_SALT_LEN is 8 bytes: 11 characters of B64
MinSaltCharsArgon2 == 11
\* password_hash Ident: most characters
IdentMaxChars == 32

------------------------------------------------------------------------------
(* Option<T> as a sequence of length 0 or 1.                                *)

None == <<>>
Some(x) == <<x>>
IsSome(o) == Len(o) = 1
Get(o) == o[1]

------------------------------------------------------------------------------
(* Passwords: byte sequences, as runs <<byte, count>>.                      *)

Bytes == {97}

\* p followed by n times byte b
Push(p, b, n) ==
    IF n = 0 THEN p
    ELSE IF Len(p) > 0 /\ p[Len(p)][1] = b
         THEN [p EXCEPT ![Len(p)] = <<b, p[Len(p)][2] + n>>]
         ELSE Append(p, <<b, n>>)

\* the number of bytes of p
RECURSIVE ByteLen(_)
ByteLen(p) == IF p = <<>> THEN 0 ELSE p[1][2] + ByteLen(Tail(p))

\* the first n bytes of p
RECURSIVE Truncate(_, _)
Truncate(p, n) ==
    IF n = 0 \/ p = <<>> THEN <<>>
    ELSE IF p[1][2] >= n THEN << <<p[1][1], n>> >>
    ELSE <<p[1]>> \o Truncate(Tail(p), n - p[1][2])

\* the passwords of at most n bytes over S
RECURSIVE PasswordsUpTo(_, _)
PasswordsUpTo(S, n) ==
    IF n = 0 THEN {<<>>}
    ELSE LET shorter == PasswordsUpTo(S, n - 1)
         IN  shorter \cup {Push(p, b, 1) : p \in {q \in shorter : ByteLen(q) = n - 1},
                                           b \in S}

Pad(n) == Push(<<>>, 97, n)

ShortPasswords == PasswordsUpTo(Bytes, MaxPwLen)
LongPasswords == {Pad(n) : n \in BcryptMaxBytes..(BcryptMaxBytes + MaxOver)}
Passwords == ShortPasswords \cup LongPasswords

------------------------------------------------------------------------------
(* Hash strings: the fields between the '$' signs.                          *)

\* a digest: <<function, password bytes read, salt, parameters>>
NoDigest == <<"", <<>>, <<>>, <<>> >>

Field(c, t, len, n, d) == [c |-> c, t |-> t, len |-> len, n |-> n, d |-> d]

\* "" (what precedes a leading '$')
EmptyF == Field("empty", "", 0, <<>>, NoDigest)
\* a lower-case name: "argon2id", "2b", "foo"
IdentF(t) == Field("ident", t, Len(t), <<>>, NoDigest)
\* "v=19"
VersionF(v) == Field("version", "v", 4, <<v>>, NoDigest)
\* "m=19456,t=2,p=1"
ParamsF(m, t, p) == Field("params", "m,t,p", 0, <<m, t, p>>, NoDigest)
\* a B64 token of len characters encoding salt s
SaltF(s, len) == Field("b64", "", len, <<s>>, NoDigest)
\* a B64 token of len characters encoding digest d
OutputF(d, len) == Field("b64", "", len, <<>>, d)
\* two decimal digits: bcrypt's cost
CostF(c) == Field("num", "", 2, <<c>>, NoDigest)
\* bcrypt's 22 characters of salt followed by 31 of digest
BcryptBodyF(s, d) == Field("bcrypt", "", BcryptBodyLen, <<s>>, d)
\* characters no parser accepts, such as "!!"
JunkF == Field("junk", "!!", 2, <<>>, NoDigest)

\* what a parser reads off a field
IsIdent(f) == f.c = "ident" /\ f.len >= 1 /\ f.len <= IdentMaxChars
StartsWithVEq(f) == f.c = "version"
HasEq(f) == f.c \in {"version", "params"}
HasComma(f) == f.c = "params"
\* every character is one of [a-zA-Z0-9/+.-]
SaltCharsOnly(f) == f.c \in {"ident", "num", "b64", "bcrypt"}
\* every character is one of [A-Za-z0-9+/]
B64CharsOnly(f) == f.c \in {"ident", "num", "b64"}
\* every character is one of bcrypt's [./A-Za-z0-9]
BcryptCharsOnly(f) == f.c \in {"num", "bcrypt"}
AllDigits(f) == f.c = "num"

------------------------------------------------------------------------------
(* Result<T, E>.                                                            *)

Ok(v) == [ok |-> TRUE, err |-> "", val |-> v]
Err(e) == [ok |-> FALSE, err |-> e, val |-> <<>>]

------------------------------------------------------------------------------
(* The argon2 and password_hash crates, as the handlers use them.           *)

Argon2Algorithms == {"argon2d", "argon2i", "argon2id"}
Argon2Versions == {V0x10, V0x13}

\* p_cost * 8 in u32 arithmetic
TimesEightU32(p) == (p % 536870912) * 8

\* argon2::Params::new(m_cost, t_cost, p_cost, None)
Params_new(m, t, p) ==
    IF m < MIN_M_COST THEN Err("MemoryTooLittle")
    ELSE IF m < TimesEightU32(p) THEN Err("MemoryTooLittle")
    ELSE IF t < MIN_T_COST THEN Err("TimeTooSmall")
    ELSE IF p < MIN_P_COST THEN Err("ThreadsTooFew")
    ELSE IF p > MAX_P_COST THEN Err("ThreadsTooMany")
    ELSE Ok(<<m, t, p>>)

\* Params::DEFAULT, what Argon2::default() carries
Params_default == <<DEFAULT_M_COST, DEFAULT_T_COST, DEFAULT_P_COST>>

\* the Argon2 function itself: ideal, its value is what it read
Argon2Digest(alg, ver, params, outChars, salt, password) ==
    <<alg, password, salt, <<ver, params[1], params[2], params[3], outChars>> >>

\* what a salt field contributes to the digest
SaltOf(f) == <<f.t, f.n>>

\* Argon2 { algorithm, version, params }.hash_password(password, salt).to_string()
Argon2_hash_password(alg, ver, params, password, salt) ==
    LET saltF == SaltF(salt, SaltChars)
        out == Argon2Digest(alg, ver, params, OutputChars, SaltOf(saltF), password)
    IN  Ok(<<EmptyF, IdentF(alg), VersionF(ver),
             ParamsF(params[1], params[2], params[3]),
             saltF, OutputF(out, OutputChars)>>)

\* Salt::from_b64
Salt_from_b64_ok(f) ==
    f.len >= SaltMinChars /\ f.len <= SaltMaxChars /\ SaltCharsOnly(f)

\* Output::decode(field, Encoding::B64)
Output_decode_ok(f) ==
    B64CharsOnly(f) /\ f.len >= OutputMinChars /\ f.len <= OutputMaxChars

\* PasswordHash::new(s): password_hash's parser of a PHC string
PasswordHash_new(h) ==
    IF h = <<EmptyF>> THEN Err("PhcStringField")
    ELSE IF h[1].c # "empty" THEN Err("PhcStringField")
    ELSE IF Len(h) < 2 THEN Err("PhcStringField")
    ELSE IF ~IsIdent(h[2]) THEN Err("ParamNameInvalid")
    ELSE
      LET n == Len(h)
          hasV == 3 <= n /\ StartsWithVEq(h[3]) /\ ~HasComma(h[3])
          i2 == IF hasV THEN 4 ELSE 3
          hasP == i2 <= n /\ HasEq(h[i2])
          i3 == IF hasP THEN i2 + 1 ELSE i2
          hasS == i3 <= n
          i4 == i3 + 1
          hasH == i4 <= n
      IN  IF hasS /\ ~Salt_from_b64_ok(h[i3]) THEN Err("SaltInvalid")
          ELSE IF hasH /\ ~Output_decode_ok(h[i4]) THEN Err("OutputSize")
          ELSE IF n > i4 THEN Err("PhcStringTrailingData")
          ELSE Ok([algorithm |-> h[2].t,
                   version |-> IF hasV THEN Some(h[3].n[1]) ELSE None,
                   params |-> IF hasP THEN Some(h[i2]) ELSE None,
                   salt |-> IF hasS THEN Some(h[i3]) ELSE None,
                   hash |-> IF hasH THEN Some(h[i4]) ELSE None])

\* Params::try_from(&PasswordHash): the m, t, p of the string, else the defaults
Params_try_from(ph) ==
    IF ~IsSome(ph.params) THEN Ok(Params_default)
    ELSE IF Get(ph.params).c # "params" THEN Err("ParamNameInvalid")
    ELSE LET q == Get(ph.params).n
             r == Params_new(q[1], q[2], q[3])
         IN  IF r.ok THEN r ELSE Err("ParamValueInvalid")

\* Argon2::default().verify_password(password, &password_hash)
Argon2_verify_password(password, ph) ==
    IF ~(IsSome(ph.salt) /\ IsSome(ph.hash)) THEN Err("Password")
    ELSE
      LET params == Params_try_from(ph)
          salt == Get(ph.salt)
          expected == Get(ph.hash)
          ver == IF IsSome(ph.version) THEN Get(ph.version) ELSE V0x13
      IN  IF ~params.ok THEN Err(params.err)
          ELSE IF ph.algorithm \notin Argon2Algorithms THEN Err("Algorithm")
          ELSE IF ver \notin Argon2Versions THEN Err("Version")
          ELSE IF ~B64CharsOnly(salt) THEN Err("B64Encoding")
          ELSE IF salt.len < MinSaltCharsArgon2 THEN Err("SaltInvalid")
          ELSE IF Argon2Digest(ph.algorithm, ver, params.val, expected.len,
                               SaltOf(salt), password) = expected.d
               THEN Ok(TRUE)
               ELSE Err("Password")

------------------------------------------------------------------------------
(* The bcrypt crate, as the handlers use it.                                *)

BcryptPrefixes == {"2a", "2b", "2x", "2y"}

\* the bytes bcrypt reads: the password, a NUL after it, cut at 72
BcryptKey(password) == Truncate(Push(password, 0, 1), BcryptMaxBytes)

\* the bcrypt function itself: ideal over the bytes it reads
BcryptDigest(cost, salt, password) ==
    <<"bcrypt", BcryptKey(password), salt, <<cost>> >>

\* bcrypt::hash(password, cost), with the salt it drew
bcrypt_hash(password, cost, salt) ==
    IF cost < MIN_COST \/ cost > MAX_COST THEN Err("CostNotAllowed")
    ELSE LET body == BcryptBodyF(salt, NoDigest)
         IN  Ok(<<EmptyF, IdentF("2b"), CostF(cost),
                  BcryptBodyF(salt, BcryptDigest(cost, SaltOf(body), password))>>)

\* bcrypt::verify(password, hash)
bcrypt_verify(password, h) ==
    LET parts == SelectSeq(h, LAMBDA f : f.c # "empty")
    IN  IF Len(parts) # 3 THEN Err("InvalidHash")
        ELSE IF ~(parts[1].c = "ident" /\ parts[1].t \in BcryptPrefixes)
             THEN Err("InvalidPrefix")
        ELSE IF ~AllDigits(parts[2]) THEN Err("InvalidCost")
        ELSE IF parts[3].len # BcryptBodyLen THEN Err("InvalidHash")
        ELSE IF ~BcryptCharsOnly(parts[3]) THEN Err("DecodeError")
        ELSE IF parts[2].n[1] < MIN_COST \/ parts[2].n[1] > MAX_COST
             THEN Err("CostNotAllowed")
        ELSE Ok(BcryptDigest(parts[2].n[1], SaltOf(parts[3]), password) = parts[3].d)

------------------------------------------------------------------------------
(* Requests.  A body is empty, is text that is not JSON, or is a JSON       *)
(* object; an object's keys are there or not.                               *)

NoOptions ==
    [memory_cost |-> None, time_cost |-> None, parallelism |-> None,
     work_factor |-> None]

Argon2Options(m, t, p) ==
    [memory_cost |-> Some(m), time_cost |-> Some(t), parallelism |-> Some(p),
     work_factor |-> None]

BcryptOptions(w) ==
    [memory_cost |-> None, time_cost |-> None, parallelism |-> None,
     work_factor |-> Some(w)]

Body(form, password, hash, options) ==
    [form |-> form, password |-> password, hash |-> hash, options |-> options]

EmptyBody == Body("empty", None, None, None)
NotJsonBody == Body("text", None, None, None)
Object(password, hash, options) == Body("object", password, hash, options)

Request(method, path, body) == [method |-> method, path |-> path, body |-> body]

\* a JSON number that fits u32
IsU32(o) == IsSome(o) /\ Get(o) >= 0

\* an option that is missing, taken as the default
OrDefault(o, d) == IF IsSome(o) THEN o ELSE Some(d)

\* options decoded field by field, a missing field defaulted
DecodeHashRequest_FieldDefaults(body, alg) ==
    IF body.form # "object" THEN Err("json")
    ELSE IF ~IsSome(body.password) THEN Err("missing field password")
    ELSE IF ~IsSome(body.options)
         THEN Ok([password |-> Get(body.password), options |-> None])
    ELSE LET o == Get(body.options)
             m == OrDefault(o.memory_cost, DEFAULT_M_COST)
             t == OrDefault(o.time_cost, DEFAULT_T_COST)
             q == OrDefault(o.parallelism, DEFAULT_P_COST)
             w == OrDefault(o.work_factor, DEFAULT_COST)
         IN  IF alg = "argon2"
             THEN IF IsU32(m) /\ IsU32(t) /\ IsU32(q)
                  THEN Ok([password |-> Get(body.password),
                           options |-> Some(<<Get(m), Get(t), Get(q)>>)])
                  ELSE Err("options")
             ELSE IF IsU32(w)
                  THEN Ok([password |-> Get(body.password),
                           options |-> Some(<<Get(w)>>)])
                  ELSE Err("options")

\* req.json::<HashRequest<Argon2HashOptions>>() and ::<HashRequest<BcryptHashOptions>>()
DecodeHashRequest(body, alg) ==
    IF body.form # "object" THEN Err("json")
    ELSE IF ~IsSome(body.password) THEN Err("missing field password")
    ELSE IF ~IsSome(body.options)
         THEN Ok([password |-> Get(body.password), options |-> None])
    ELSE LET o == Get(body.options)
         IN  IF alg = "argon2"
             THEN IF IsU32(o.time_cost) /\ IsU32(o.memory_cost) /\ IsU32(o.parallelism)
                  THEN Ok([password |-> Get(body.password),
                           options |-> Some(<<Get(o.memory_cost), Get(o.time_cost),
                                              Get(o.parallelism)>>)])
                  ELSE Err("options")
             ELSE IF IsU32(o.work_factor)
                  THEN Ok([password |-> Get(body.password),
                           options |-> Some(<<Get(o.work_factor)>>)])
                  ELSE Err("options")

\* req.json::<VerifyRequest>(): keys it does not know are skipped
DecodeVerifyRequest(body) ==
    IF body.form # "object" THEN Err("json")
    ELSE IF ~IsSome(body.password) THEN Err("missing field password")
    ELSE IF ~IsSome(body.hash) THEN Err("missing field hash")
    ELSE Ok([password |-> Get(body.password), hash |-> Get(body.hash)])

------------------------------------------------------------------------------
(* The handlers.  Each returns what main needs of the call: the result, and *)
(* what the call did on the way (whether req.json() was called, which       *)
(* primitives ran, how many salts it drew).                                 *)

ErrorKinds ==
    {"InvalidRoute", "BadRequest", "InternalServerError", "InvalidHashOptions",
     "HashFailed", "InvalidPasswordHash", "VerifyFailed"}

\* serde_json::to_string(&HashResponse { hash }) and (&VerifyResponse { result })
HashResponse(hash) == [kind |-> "hash", hash |-> Some(hash), result |-> FALSE]
VerifyResponse(result) == [kind |-> "verify", hash |-> None, result |-> result]
NoPayload == [kind |-> "", hash |-> None, result |-> FALSE]

Outcome(result, read, prims, draws) ==
    [result |-> result, read |-> read, prims |-> prims, draws |-> draws]

\* Err(kind) of the handlers' Result<String, Error>
Fail(kind) == [ok |-> FALSE, err |-> kind, val |-> NoPayload]

\* a rejected parameter tuple reported as a failure of the hash
argon2id_hash_AsHashFailed(password, options, salt) ==
    IF IsSome(options) /\ ~Params_new(Get(options)[1], Get(options)[2], Get(options)[3]).ok
    THEN Err("HashFailed")
    ELSE Argon2_hash_password("argon2id", V0x13,
                              IF IsSome(options) THEN Get(options) ELSE Params_default,
                              password, salt)

\* fn argon2id_hash(password, options), given the salt OsRng yields
argon2id_hash(password, options, salt) ==
    IF IsSome(options)
    THEN LET opts == Get(options)
             params == Params_new(opts[1], opts[2], opts[3])
         IN  IF ~params.ok THEN Err("InvalidHashOptions")
             ELSE LET h == Argon2_hash_password("argon2id", V0x13, params.val,
                                                 password, salt)
                  IN  IF h.ok THEN h ELSE Err("HashFailed")
    ELSE LET h == Argon2_hash_password("argon2id", V0x13, Params_default,
                                        password, salt)
         IN  IF h.ok THEN h ELSE Err("HashFailed")

\* the primitives argon2id_hash runs
argon2id_hash_prims(options) ==
    IF ~IsSome(options) THEN {"OsRng", "Argon2::hash_password"}
    ELSE IF Params_new(Get(options)[1], Get(options)[2], Get(options)[3]).ok
         THEN {"OsRng", "Params::new", "Argon2::hash_password"}
         ELSE {"OsRng", "Params::new"}

\* async fn argon2id_hash_handler(req)
argon2id_hash_handler(req, salt) ==
    LET hash_req == DecodeHashRequest(req.body, "argon2")
    IN  IF ~hash_req.ok THEN Outcome(Fail("BadRequest"), TRUE, {}, 0)
        ELSE LET password_hash == argon2id_hash(hash_req.val.password,
                                                hash_req.val.options, salt)
                 prims == argon2id_hash_prims(hash_req.val.options)
             IN  IF ~password_hash.ok
                 THEN Outcome(Fail(password_hash.err), TRUE, prims, 1)
                 ELSE Outcome(Ok(HashResponse(password_hash.val)), TRUE, prims, 1)

\* one salt for every call
OsRng_Stale(n) == 1

\* SaltString::generate(&mut OsRng), and the salt bcrypt::hash draws: the n-th
\* draw of the random source is a value it has not given before
OsRng(n) == n

\* async fn bcrypt_hash_handler(req)
bcrypt_hash_handler(req, salt) ==
    LET hash_req == DecodeHashRequest(req.body, "bcrypt")
    IN  IF ~hash_req.ok THEN Outcome(Fail("BadRequest"), TRUE, {}, 0)
        ELSE LET cost == IF IsSome(hash_req.val.options)
                         THEN Get(hash_req.val.options)[1]
                         ELSE DEFAULT_COST
                 password_hash == bcrypt_hash(hash_req.val.password, cost, salt)
             IN  IF ~password_hash.ok
                 THEN Outcome(Fail("HashFailed"), TRUE, {"OsRng", "bcrypt::hash"}, 1)
                 ELSE Outcome(Ok(HashResponse(password_hash.val)), TRUE,
                              {"OsRng", "bcrypt::hash"}, 1)

\* the digest recomputed with Argon2::default()'s own parameters, not the string's
argon2id_verify_OwnParams(options) ==
    LET password_hash == PasswordHash_new(options.hash)
    IN  IF ~password_hash.ok THEN Err("InvalidPasswordHash")
        ELSE LET v == Argon2_verify_password(options.password,
                          [password_hash.val EXCEPT !.params = None])
             IN  IF v.ok THEN Ok(TRUE)
                 ELSE IF v.err = "Password" THEN Ok(FALSE)
                 ELSE Err("VerifyFailed")

\* fn argon2id_verify(options)
argon2id_verify(options) ==
    LET password_hash == PasswordHash_new(options.hash)
    IN  IF ~password_hash.ok THEN Err("InvalidPasswordHash")
        ELSE LET v == Argon2_verify_password(options.password, password_hash.val)
             IN  IF v.ok THEN Ok(TRUE)
                 ELSE IF v.err = "Password" THEN Ok(FALSE)
                 ELSE Err("VerifyFailed")

\* async fn argon2id_verify_handler(req)
argon2id_verify_handler(req) ==
    LET options == DecodeVerifyRequest(req.body)
    IN  IF ~options.ok THEN Outcome(Fail("BadRequest"), TRUE, {}, 0)
        ELSE LET result == argon2id_verify(options.val)
                 prims == IF PasswordHash_new(options.val.hash).ok
                          THEN {"PasswordHash::new", "Argon2::verify_password"}
                          ELSE {"PasswordHash::new"}
             IN  IF ~result.ok THEN Outcome(Fail(result.err), TRUE, prims, 0)
                 ELSE Outcome(Ok(VerifyResponse(result.val)), TRUE, prims, 0)

\* bcrypt::verify(..).unwrap_or(false): a failure of the primitive read as a mismatch
bcrypt_verify_handler_UnwrapOrFalse(req) ==
    LET options == DecodeVerifyRequest(req.body)
    IN  IF ~options.ok THEN Outcome(Fail("BadRequest"), TRUE, {}, 0)
        ELSE LET result == bcrypt_verify(options.val.password, options.val.hash)
             IN  Outcome(Ok(VerifyResponse(IF result.ok THEN result.val ELSE FALSE)),
                         TRUE, {"bcrypt::verify"}, 0)

\* async fn bcrypt_verify_handler(req)
bcrypt_verify_handler(req) ==
    LET options == DecodeVerifyRequest(req.body)
    IN  IF ~options.ok THEN Outcome(Fail("BadRequest"), TRUE, {}, 0)
        ELSE LET result == bcrypt_verify(options.val.password, options.val.hash)
             IN  IF ~result.ok
                 THEN Outcome(Fail("VerifyFailed"), TRUE, {"bcrypt::verify"}, 0)
                 ELSE Outcome(Ok(VerifyResponse(result.val)), TRUE,
                              {"bcrypt::verify"}, 0)

------------------------------------------------------------------------------
(* Responses.                                                               *)

Response(status, contentType, text, payload) ==
    [status |-> status, contentType |-> contentType, text |-> text,
     payload |-> payload]

\* worker's Response::error(msg, status): the message as the body, no headers
Response_error(msg, status) == Response(status, None, msg, NoPayload)

\* Response::ok(body)?.with_headers(res_headers)
Response_ok(payload, headers) == Response(200, headers, "", payload)

\* an unparseable hash answered as a server error
to_response_ServerError(err) ==
    CASE err = "InvalidRoute" -> Response_error("Not found.", 404)
      [] err = "BadRequest" -> Response_error("Bad request.", 400)
      [] err = "InternalServerError" -> Response_error("Internal server error.", 500)
      [] err = "InvalidHashOptions" ->
             Response_error("Invalid option for specified hash algorithm.", 400)
      [] err = "HashFailed" -> Response_error("Hash failed.", 500)
      [] err = "InvalidPasswordHash" -> Response_error("Invalid hash", 500)
      [] err = "VerifyFailed" -> Response_error("Verification failed.", 500)

\* Error::to_response
to_response(err) ==
    CASE err = "InvalidRoute" -> Response_error("Not found.", 404)
      [] err = "BadRequest" -> Response_error("Bad request.", 400)
      [] err = "InternalServerError" -> Response_error("Internal server error.", 500)
      [] err = "InvalidHashOptions" ->
             Response_error("Invalid option for specified hash algorithm.", 400)
      [] err = "HashFailed" -> Response_error("Hash failed.", 500)
      [] err = "InvalidPasswordHash" -> Response_error("Invalid hash", 400)
      [] err = "VerifyFailed" -> Response_error("Verification failed.", 500)

\* the match on the path alone, whatever the method
Dispatch_AnyMethod(req, salt) ==
    CASE req.path = "/argon2/hash" -> argon2id_hash_handler(req, salt)
      [] req.path = "/argon2/verify" -> argon2id_verify_handler(req)
      [] req.path = "/bcrypt/hash" -> bcrypt_hash_handler(req, salt)
      [] req.path = "/bcrypt/verify" -> bcrypt_verify_handler(req)
      [] OTHER -> Outcome(Fail("InvalidRoute"), FALSE, {}, 0)

Routes ==
    {<<"POST", "/argon2/hash">>, <<"POST", "/argon2/verify">>,
     <<"POST", "/bcrypt/hash">>, <<"POST", "/bcrypt/verify">>}

\* the match on (req.method(), req.path()) in main
Dispatch(req, salt) ==
    CASE req.method = "POST" /\ req.path = "/argon2/hash" -> argon2id_hash_handler(req, salt)
      [] req.method = "POST" /\ req.path = "/argon2/verify" -> argon2id_verify_handler(req)
      [] req.method = "POST" /\ req.path = "/bcrypt/hash" -> bcrypt_hash_handler(req, salt)
      [] req.method = "POST" /\ req.path = "/bcrypt/verify" -> bcrypt_verify_handler(req)
      [] OTHER -> Outcome(Fail("InvalidRoute"), FALSE, {}, 0)

\* the second match of main: the response of a result
Respond(result) ==
    IF result.ok THEN Response_ok(result.val, Some("application/json"))
    ELSE to_response(result.err)

AlgOf(path) == IF path \in {"/argon2/hash", "/argon2/verify"} THEN "argon2" ELSE "bcrypt"

Exchange(req, out, resp, draw) ==
    [req |-> req, result |-> out.result, read |-> out.read,
     prims |-> out.prims, draw |-> draw, resp |-> resp]

\* async fn main(req, _env, _ctx): one request, from arrival to response
main(req) ==
    \E out \in {Dispatch(req, OsRng(rng + 1))} :
        /\ rng + out.draws <= MaxSalts
        /\ rng' = rng + out.draws
        /\ last' = Exchange(req, out, Respond(out.result),
                            IF out.draws = 0 THEN 0 ELSE rng + 1)
        /\ UNCHANGED issued

------------------------------------------------------------------------------
(* What clients send.                                                       *)

Methods == {"GET", "POST"}
Paths == {"/argon2/hash", "/argon2/verify", "/bcrypt/hash", "/bcrypt/verify", "/unknown"}

\* (memory_cost, time_cost, parallelism): around each limit of Params::new
Argon2Tuples ==
    {<<8, 1, 1>>, <<16, 1, 2>>, <<7, 1, 1>>, <<15, 1, 2>>, <<8, 0, 1>>, <<8, 1, 0>>,
     <<134217728, 1, 16777216>>}

\* work_factor: around each limit of bcrypt's cost
WorkFactors == {MIN_COST - 1, MIN_COST, MAX_COST, MAX_COST + 1}

Argon2OptionObjects ==
    {Argon2Options(x[1], x[2], x[3]) : x \in Argon2Tuples}
    \cup {[Argon2Options(8, 1, 1) EXCEPT !.parallelism = None],
          [Argon2Options(8, 1, 1) EXCEPT !.time_cost = Some(-1)],
          NoOptions}

BcryptOptionObjects == {BcryptOptions(w) : w \in WorkFactors} \cup {NoOptions}

MalformedBodies ==
    {EmptyBody, NotJsonBody, Object(None, None, None)}

HashBodies(objects) ==
    MalformedBodies
    \cup {Object(Some(pw), None, o) : pw \in Passwords,
                                      o \in {None} \cup {Some(x) : x \in objects}}

Argon2HashBodies == HashBodies(Argon2OptionObjects)
BcryptHashBodies == HashBodies(BcryptOptionObjects)

\* hash strings a client can make up
SampleSalt == SaltF(0, SaltChars)
SampleDigest(alg, params) ==
    OutputF(Argon2Digest(alg, V0x13, params, OutputChars, SaltOf(SampleSalt), Pad(1)),
            OutputChars)
CraftedHashes ==
    {<<EmptyF>>,
     <<IdentF("garbage")>>,
     <<EmptyF, JunkF>>,
     <<EmptyF, IdentF("argon2id")>>,
     <<EmptyF, IdentF("argon2id"), VersionF(V0x13), ParamsF(8, 1, 1), SampleSalt>>,
     <<EmptyF, IdentF("foo"), SampleSalt, SampleDigest("foo", Params_default)>>,
     <<EmptyF, IdentF("argon2id"), VersionF(V0x13), ParamsF(8, 1, 1), SampleSalt,
       SampleDigest("argon2id", <<8, 1, 1>>), IdentF("more")>>,
     <<EmptyF, IdentF("argon2id"), VersionF(V0x13), ParamsF(7, 1, 1), SampleSalt,
       SampleDigest("argon2id", <<7, 1, 1>>)>>,
     <<EmptyF, IdentF("argon2i"), VersionF(V0x13), ParamsF(8, 1, 1), SampleSalt,
       SampleDigest("argon2i", <<8, 1, 1>>)>>,
     <<EmptyF, IdentF("2z"), CostF(DEFAULT_COST), BcryptBodyF(0, NoDigest)>>,
     <<EmptyF, IdentF("2b"), CostF(3), BcryptBodyF(0, NoDigest)>>}

IssuedHashes == {issued[i].hash : i \in 1..Len(issued)}

\* bodies sent to what is no route
OtherBodies ==
    MalformedBodies
    \cup {Object(Some(pw), None, None) : pw \in ShortPasswords}
    \cup {Object(Some(pw), Some(h), None) : pw \in ShortPasswords, h \in IssuedHashes}

VerifyBodies ==
    MalformedBodies
    \cup {Object(Some(pw), None, None) : pw \in ShortPasswords}
    \cup {Object(Some(pw), Some(h), None) : pw \in Passwords, h \in IssuedHashes}
    \cup {Object(Some(pw), Some(h), None) : pw \in ShortPasswords, h \in CraftedHashes}

------------------------------------------------------------------------------
(* The state machine: one action per route of main.                         *)

NoExchange ==
    Exchange(Request("", "", EmptyBody), Outcome(Fail(""), FALSE, {}, 0),
             Response(0, None, "", NoPayload), 0)

Init ==
    /\ rng = 0
    /\ issued = <<>>
    /\ last = NoExchange

\* the client sends its next request once it has taken the last answer
Idle == last = NoExchange

PostArgon2Hash ==
    /\ Idle
    /\ \E body \in Argon2HashBodies : main(Request("POST", "/argon2/hash", body))

PostArgon2Verify ==
    /\ Idle
    /\ \E body \in VerifyBodies : main(Request("POST", "/argon2/verify", body))

PostBcryptHash ==
    /\ Idle
    /\ \E body \in BcryptHashBodies : main(Request("POST", "/bcrypt/hash", body))

PostBcryptVerify ==
    /\ Idle
    /\ \E body \in VerifyBodies : main(Request("POST", "/bcrypt/verify", body))

OtherRequest ==
    /\ Idle
    /\ \E method \in Methods, path \in Paths, body \in OtherBodies :
           /\ <<method, path>> \notin Routes
           /\ main(Request(method, path, body))

\* what the client keeps of a hash call's answer
Keep(log, x) ==
    IF x.resp.status = 200 /\ x.resp.payload.kind = "hash" /\ Len(log) < MaxIssued
    THEN Append(log, [alg |-> AlgOf(x.req.path),
                      password |-> Get(x.req.body.password),
                      options |-> x.req.body.options,
                      draw |-> x.draw,
                      hash |-> Get(x.resp.payload.hash)])
    ELSE log

\* the response reaches the client, which keeps the hash string if it has room
Receive ==
    /\ ~Idle
    /\ issued' = Keep(issued, last)
    /\ last' = NoExchange
    /\ UNCHANGED rng

Next ==
    \/ PostArgon2Hash
    \/ PostArgon2Verify
    \/ PostBcryptHash
    \/ PostBcryptVerify
    \/ OtherRequest
    \/ Receive

Spec == Init /\ [][Next]_vars

------------------------------------------------------------------------------
(* Reading the last exchange.                                               *)

Handled == last.req.method # ""
Route(path) == last.req.method = "POST" /\ last.req.path = path
Kind == last.result.err
Succeeded == Handled /\ last.result.ok
Failed == Handled /\ ~last.result.ok
PasswordSent == Get(last.req.body.password)
HashSent == Get(last.req.body.hash)

VerifyPath(alg) == IF alg = "argon2" THEN "/argon2/verify" ELSE "/bcrypt/verify"

\* the last request asked route `path` to verify a password against the
\* hash string the client was given in answer i
VerifiesIssued(path, i) ==
    /\ Route(path)
    /\ last.req.body.form = "object"
    /\ IsSome(last.req.body.password)
    /\ IsSome(last.req.body.hash)
    /\ HashSent = issued[i].hash

Answered(result) ==
    /\ last.resp.status = 200
    /\ last.resp.payload = VerifyResponse(result)

Refused(kind, status) ==
    /\ ~last.result.ok
    /\ Kind = kind
    /\ last.resp.status = status
    /\ last.resp.payload = NoPayload

------------------------------------------------------------------------------
(* C1.  Negative: for both algorithms and all passwords P1 # P2, verifying  *)
(* P2 against the hash string a successful hash of P1 returned answers 200  *)
(* with result false, never true and never an error.                        *)
C1_MismatchIsFalse ==
    \A i \in 1..Len(issued) :
        (/\ VerifiesIssued(VerifyPath(issued[i].alg), i)
         /\ PasswordSent # issued[i].password)
        => Answered(FALSE)

(* C2.  Round trip: for both algorithms and every password P, the empty one *)
(* included, verifying P against the hash string a successful hash of P     *)
(* returned (options omitted, or given and accepted) answers 200 with       *)
(* result true.                                                             *)
C2_RoundTrip ==
    \A i \in 1..Len(issued) :
        (/\ VerifiesIssued(VerifyPath(issued[i].alg), i)
         /\ PasswordSent = issued[i].password)
        => Answered(TRUE)

\* a password of more than 72 bytes, hashed by bcrypt with a work factor
\* given, was verified against its own hash string
C2_Witness ==
    \E i \in 1..Len(issued) :
        /\ VerifiesIssued("/bcrypt/verify", i)
        /\ issued[i].alg = "bcrypt"
        /\ IsSome(issued[i].options)
        /\ PasswordSent = issued[i].password
        /\ ByteLen(PasswordSent) > BcryptMaxBytes
        /\ Answered(TRUE)

\* a hash string the spec calls unusable: its structure is malformed, or the
\* algorithm it names is none of Argon2's
UnknownTag(h) == Len(h) >= 2 /\ h[2].t \notin Argon2Algorithms
Unusable(h) == ~PasswordHash_new(h).ok \/ UnknownTag(h)

(* C3.  Argon2 verify answers every decodable request whose hash string is  *)
(* unusable (malformed structure, or an unknown algorithm tag) with         *)
(* InvalidPasswordHash, 400: never VerifyFailed, never true or false.       *)
C3_UnusableIsInvalidPasswordHash ==
    (/\ Route("/argon2/verify")
     /\ DecodeVerifyRequest(last.req.body).ok
     /\ Unusable(HashSent))
    => Refused("InvalidPasswordHash", 400)

(* C4.  Cross-algorithm isolation: a hash string one algorithm's hash       *)
(* operation returned, verified through the other algorithm with any        *)
(* password, gives no true or false: argon2 verify of a bcrypt hash is      *)
(* refused with InvalidPasswordHash, bcrypt verify of an Argon2 hash with   *)
(* VerifyFailed.                                                            *)
C4_CrossAlgorithm ==
    \A i \in 1..Len(issued) :
        /\ (VerifiesIssued("/argon2/verify", i) /\ issued[i].alg = "bcrypt")
           => Refused("InvalidPasswordHash", 400)
        /\ (VerifiesIssued("/bcrypt/verify", i) /\ issued[i].alg = "argon2")
           => Refused("VerifyFailed", 500)

\* bcrypt's hash string of a password was given to argon2 verify with that
\* password
C4_Witness ==
    \E i \in 1..Len(issued) :
        /\ VerifiesIssued("/argon2/verify", i)
        /\ issued[i].alg = "bcrypt"
        /\ PasswordSent = issued[i].password
        /\ Kind = "InvalidPasswordHash"

\* an options object with a required field missing
PartialOptions(path, body) ==
    /\ IsSome(body.options)
    /\ IF path = "/argon2/hash"
       THEN \/ ~IsSome(Get(body.options).memory_cost)
            \/ ~IsSome(Get(body.options).time_cost)
            \/ ~IsSome(Get(body.options).parallelism)
       ELSE ~IsSome(Get(body.options).work_factor)

\* a body the spec calls undecodable on route `path`
Undecodable(path, body) ==
    \/ body.form = "empty"
    \/ body.form = "text"
    \/ ~IsSome(body.password)
    \/ path \in {"/argon2/verify", "/bcrypt/verify"} /\ ~IsSome(body.hash)
    \/ path \in {"/argon2/hash", "/bcrypt/hash"} /\ PartialOptions(path, body)

(* C5.  On each of the four routes a body that is empty, is not JSON, lacks *)
(* password (or, for verify, hash), or carries options with a required      *)
(* field missing is refused with BadRequest, 400; no salt is drawn and no   *)
(* hashing or verification primitive runs.                                  *)
C5_BadRequest ==
    (/\ <<last.req.method, last.req.path>> \in Routes
     /\ Undecodable(last.req.path, last.req.body))
    => /\ Refused("BadRequest", 400)
       /\ last.prims = {}
       /\ last.draw = 0

\* an argon2 hash request with a password and options that lack parallelism
C5_Witness ==
    /\ Route("/argon2/hash")
    /\ IsSome(last.req.body.password)
    /\ PartialOptions("/argon2/hash", last.req.body)
    /\ Kind = "BadRequest"

(* C6.  Every request whose (method, path) is not one of the four routes is *)
(* refused with InvalidRoute, 404, whatever its body: the body is not read  *)
(* and no primitive runs; and no request to one of the four routes is       *)
(* refused with InvalidRoute.                                               *)
C6_InvalidRoute ==
    Handled =>
        IF <<last.req.method, last.req.path>> \in Routes
        THEN Kind # "InvalidRoute"
        ELSE /\ Refused("InvalidRoute", 404)
             /\ ~last.read
             /\ last.prims = {}
             /\ last.draw = 0

\* GET /argon2/hash with a body the POST route would hash
C6_Witness ==
    /\ last.req.method = "GET"
    /\ last.req.path = "/argon2/hash"
    /\ DecodeHashRequest(last.req.body, "argon2").ok
    /\ last.resp.status = 404

(* C7.  Every response, success or error, carries the header Content-Type:  *)
(* application/json.                                                        *)
C7_ContentTypeJson ==
    Handled => last.resp.contentType = Some("application/json")

\* the status the spec's table gives each kind
StatusOf(kind) ==
    CASE kind = "InvalidRoute" -> 404
      [] kind \in {"BadRequest", "InvalidHashOptions", "InvalidPasswordHash"} -> 400
      [] kind \in {"HashFailed", "VerifyFailed", "InternalServerError"} -> 500

\* one message for each kind
MessageOf(kind) ==
    CASE kind = "InvalidRoute" -> "Not found."
      [] kind = "BadRequest" -> "Bad request."
      [] kind = "InvalidHashOptions" -> "Invalid option for specified hash algorithm."
      [] kind = "InvalidPasswordHash" -> "Invalid hash"
      [] kind = "HashFailed" -> "Hash failed."
      [] kind = "VerifyFailed" -> "Verification failed."
      [] kind = "InternalServerError" -> "Internal server error."

(* C8.  Every failing request ends in exactly one error kind, and its       *)
(* response is a function of the kind alone: the status is the table's, and *)
(* status and message are those of the kind (so any two requests that end   *)
(* in the same kind get the same ones), whatever the password, hash or      *)
(* options; nothing of the request is in the response.                      *)
C8_ResponseOfKindAlone ==
    Failed =>
        /\ Kind \in ErrorKinds
        /\ last.resp = Response(StatusOf(Kind), None, MessageOf(Kind), NoPayload)

\* a second hash request was refused for its options
C8_Witness ==
    /\ Kind = "InvalidHashOptions"
    /\ rng = 2
    /\ last.resp.status = 400
    /\ last.resp.text = "Invalid option for specified hash algorithm."

(* C9.  An argon2 hash request whose options the primitive's parameter      *)
(* ranges reject is refused with InvalidHashOptions, 400, never HashFailed, *)
(* and gets no hash; a bcrypt hash request whose work_factor is out of      *)
(* range is refused with HashFailed, 500; bcrypt hash never answers         *)
(* InvalidHashOptions.                                                      *)
C9_RejectedOptions ==
    /\ (/\ Route("/argon2/hash")
        /\ DecodeHashRequest(last.req.body, "argon2").ok
        /\ IsSome(last.req.body.options)
        /\ ~Params_new(Get(Get(last.req.body.options).memory_cost),
                       Get(Get(last.req.body.options).time_cost),
                       Get(Get(last.req.body.options).parallelism)).ok)
       => Refused("InvalidHashOptions", 400)
    /\ (/\ Route("/bcrypt/hash")
        /\ DecodeHashRequest(last.req.body, "bcrypt").ok
        /\ IsSome(last.req.body.options)
        /\ Get(Get(last.req.body.options).work_factor) \notin MIN_COST..MAX_COST)
       => Refused("HashFailed", 500)
    /\ Route("/bcrypt/hash") => Kind # "InvalidHashOptions"

\* memory below what the parallelism needs: m = 15, p = 2
C9_Witness ==
    /\ Route("/argon2/hash")
    /\ IsSome(last.req.body.options)
    /\ Get(last.req.body.options) = Argon2Options(15, 1, 2)
    /\ Kind = "InvalidHashOptions"

\* the last request was a hash call that succeeded
HashGiven == Succeeded /\ last.result.val.kind = "hash"

(* C10.  Salt freshness: every successful hash call draws a salt no earlier *)
(* call drew, so two successful hash calls never return the same hash       *)
(* string, even for the same algorithm, password and options.               *)
C10_FreshSalt ==
    /\ \A i, j \in 1..Len(issued) : i # j => issued[i].hash # issued[j].hash
    /\ \A i \in 1..Len(issued) :
           HashGiven => /\ Get(last.resp.payload.hash) # issued[i].hash
                        /\ last.draw # issued[i].draw

\* a second hash call with the algorithm, password and options of the first
C10_Witness ==
    \E i \in 1..Len(issued) :
        /\ HashGiven
        /\ AlgOf(last.req.path) = issued[i].alg
        /\ PasswordSent = issued[i].password
        /\ last.req.body.options = issued[i].options

====
